---- MODULE Spec2Model ----
(***************************************************************************)
(* Browser process lifecycle and CDP connectivity manager of autoBrowser.  *)
(*                                                                         *)
(* The model covers the session registry (browserStart / browserStop /     *)
(* activeBrowser, chrome.executables.ts), the launcher and the shutdown    *)
(* routine (launchClawdChrome / stopClawdChrome, chrome.ts), the           *)
(* executable resolver, and the environment they talk to: the spawned      *)
(* child processes, the owner of TCP port 9222 and the host file system.   *)
(*                                                                         *)
(* Every async function is cut at its await points: one action is the      *)
(* synchronous run of the code from one await to the next.                 *)
(***************************************************************************)
EXTENDS Integers, Sequences, FiniteSets, TLC

\* ------------------------------------------------------------------ bounds
\* number of call slots (async invocations that may be in flight together)
NumCallers == 2
\* number of child processes the program may spawn in one run
MaxSpawns == 2
\* launch readiness deadline (15 s) counted in sleep intervals
ReadyDeadline == 2
\* shutdown wait (2.5 s) counted in sleep intervals
StopTimeout == 2

Callers == 1..NumCallers
Pids == 1..MaxSpawns

\* ------------------------------------------------------------ host: files
ChromeMac == "/Applications/Google Chrome.app/Contents/MacOS/Google Chrome"
BraveMac == "/Applications/Brave Browser.app/Contents/MacOS/Brave Browser"
CustomExe == "/opt/custom/chrome"

NullExe == [kind |-> "null", path |-> ""]
ThrowNotFound == [kind |-> "throw", path |-> ""]

CandidatesMac ==
  << [kind |-> "chrome", path |-> ChromeMac],
     [kind |-> "chrome", path |-> "/Users/u/Applications/Google Chrome.app/Contents/MacOS/Google Chrome"],
     [kind |-> "brave", path |-> BraveMac],
     [kind |-> "brave", path |-> "/Users/u/Applications/Brave Browser.app/Contents/MacOS/Brave Browser"],
     [kind |-> "chromium", path |-> "/Applications/Chromium.app/Contents/MacOS/Chromium"],
     [kind |-> "chromium", path |-> "/Users/u/Applications/Chromium.app/Contents/MacOS/Chromium"],
     [kind |-> "canary", path |-> "/Applications/Google Chrome Canary.app/Contents/MacOS/Google Chrome Canary"] >>

CandidatesLinux ==
  << [kind |-> "chrome", path |-> "/usr/bin/google-chrome"],
     [kind |-> "chrome", path |-> "/usr/bin/google-chrome-stable"],
     [kind |-> "chrome", path |-> "/usr/bin/chrome"],
     [kind |-> "chromium", path |-> "/usr/bin/chromium"],
     [kind |-> "chromium", path |-> "/usr/bin/chromium-browser"],
     [kind |-> "chromium", path |-> "/snap/bin/chromium"] >>

CandidatesWindows ==
  << [kind |-> "chrome", path |-> "C:\\Program Files\\Google\\Chrome\\Application\\chrome.exe"],
     [kind |-> "chrome", path |-> "C:\\Program Files (x86)\\Google\\Chrome\\Application\\chrome.exe"] >>

DefaultCandidatesLinux ==
  << [kind |-> "chrome", path |-> "/usr/bin/google-chrome"],
     [kind |-> "chromium", path |-> "/usr/bin/chromium"],
     [kind |-> "chromium", path |-> "/usr/bin/chromium-browser"] >>

Platforms == {"darwin", "linux", "win32", "freebsd"}

\* the default browser of a macOS host as launch services report it:
\* "" when no handler is registered or the lookup fails.
CHROMIUM_BUNDLE_IDS == {"com.google.Chrome", "com.brave.Browser"}
BundleIds == {"", "com.brave.Browser", "org.mozilla.firefox"}

VARIABLES
  platform,       \* process.platform
  files,          \* the paths for which fs.existsSync answers true
  defaultBundle,  \* bundle id of the default http handler (macOS)
  noExec,         \* existing paths whose exec fails (EACCES)
  activeBrowser,  \* the registry: 0 (null) or the tracked handle's process
  procs,          \* the child processes spawned so far
  listener,       \* who answers CDP on 127.0.0.1:9222
  wsAccepts,      \* the endpoint completes WebSocket handshakes
  calls,          \* the in-flight invocations, one record per call slot
  ret,            \* the value of the last call of a synchronous helper
  agent           \* run() of index.ts: where it is suspended, its counter

vars == << platform, files, defaultBundle, noExec, activeBrowser, procs, listener,
           wsAccepts, calls, ret, agent >>

host == << platform, files, defaultBundle, noExec >>

\* ------------------------------------------------------ executable resolver
exists(filePath) == filePath \in files

RECURSIVE findFrom(_, _)
findFrom(candidates, i) ==
  IF i > Len(candidates) THEN NullExe
  ELSE IF exists(candidates[i].path) THEN candidates[i]
  ELSE findFrom(candidates, i + 1)

findFirstExecutable(candidates) == findFrom(candidates, 1)

findChromeExecutableMac == findFirstExecutable(CandidatesMac)
findChromeExecutableLinux == findFirstExecutable(CandidatesLinux)
findChromeExecutableWindows == findFirstExecutable(CandidatesWindows)

\* the launch-services lookups answer for the installed Brave bundle only
inferKindFromIdentifier(id) ==
  IF id = "com.brave.Browser" THEN "brave" ELSE "chrome"

appExecutableOf(bundleId) ==
  IF bundleId = "com.brave.Browser" THEN BraveMac
  ELSE IF bundleId = "com.google.Chrome" THEN ChromeMac
  ELSE ""

detectDefaultChromiumExecutableMac ==
  IF defaultBundle = "" \/ defaultBundle \notin CHROMIUM_BUNDLE_IDS THEN NullExe
  ELSE IF appExecutableOf(defaultBundle) = "" THEN NullExe
  ELSE IF ~exists(appExecutableOf(defaultBundle)) THEN NullExe
  ELSE [kind |-> inferKindFromIdentifier(defaultBundle),
        path |-> appExecutableOf(defaultBundle)]

detectDefaultChromiumExecutableLinux == findFirstExecutable(DefaultCandidatesLinux)

detectDefaultChromiumExecutableWindows == NullExe

detectDefaultChromiumExecutable(plat) ==
  IF plat = "darwin" THEN detectDefaultChromiumExecutableMac
  ELSE IF plat = "linux" THEN detectDefaultChromiumExecutableLinux
  ELSE IF plat = "win32" THEN detectDefaultChromiumExecutableWindows
  ELSE NullExe

\* variant: a missing executablePath falls through to auto-detection
resolveBrowserExecutableForPlatform_fallThrough(executablePath, plat) ==
  IF executablePath # "" /\ exists(executablePath) THEN
    [kind |-> "custom", path |-> executablePath]
  ELSE IF detectDefaultChromiumExecutable(plat) # NullExe
    THEN detectDefaultChromiumExecutable(plat)
  ELSE IF plat = "darwin" THEN findChromeExecutableMac
  ELSE IF plat = "linux" THEN findChromeExecutableLinux
  ELSE IF plat = "win32" THEN findChromeExecutableWindows
  ELSE NullExe

\* executablePath = "" stands for an unset config.executablePath
resolveBrowserExecutableForPlatform(executablePath, plat) ==
  IF executablePath # "" THEN
    IF ~exists(executablePath) THEN ThrowNotFound
    ELSE [kind |-> "custom", path |-> executablePath]
  ELSE IF detectDefaultChromiumExecutable(plat) # NullExe
    THEN detectDefaultChromiumExecutable(plat)
  ELSE IF plat = "darwin" THEN findChromeExecutableMac
  ELSE IF plat = "linux" THEN findChromeExecutableLinux
  ELSE IF plat = "win32" THEN findChromeExecutableWindows
  ELSE NullExe

resolveBrowserExecutable(executablePath) ==
  resolveBrowserExecutableForPlatform(executablePath, platform)

\* the lookups one call of resolveBrowserExecutableForPlatform makes: the
\* existence test of executablePath, default-browser detection, the candidates
resolveConsults(executablePath, plat) ==
  IF executablePath # "" THEN {"executablePath"}
  ELSE IF detectDefaultChromiumExecutable(plat) # NullExe THEN {"detectDefault"}
  ELSE IF plat \in {"darwin", "linux", "win32"} THEN {"detectDefault", "candidates"}
  ELSE {"detectDefault"}

\* ------------------------------------------------------------ spawnOnce args
\* path.join(process.cwd(), "browser-data", profile.name)
userDataDir(name) == "/cwd/browser-data/" \o name

\* variant: about:blank is pushed before the platform flag
spawnOnceArgs_blankEarly(headless, noSandbox, cdpPort, dir) ==
  << "--remote-debugging-port=" \o cdpPort,
     "--user-data-dir=" \o dir,
     "--no-first-run",
     "--no-default-browser-check",
     "--disable-sync",
     "--disable-background-networking",
     "--disable-component-update",
     "--disable-features=Translate,MediaRouter",
     "--disable-session-crashed-bubble",
     "--hide-crash-restore-bubble",
     "--password-store=basic" >>
  \o (IF headless THEN << "--headless=new", "--disable-gpu" >> ELSE << >>)
  \o (IF noSandbox THEN << "--no-sandbox", "--disable-setuid-sandbox" >> ELSE << >>)
  \o << "about:blank" >>
  \o (IF platform = "linux" THEN << "--disable-dev-shm-usage" >> ELSE << >>)

\* the argument vector spawnOnce builds (chrome.ts lines 147-172)
spawnOnceArgs(headless, noSandbox, cdpPort, dir) ==
  << "--remote-debugging-port=" \o cdpPort,
     "--user-data-dir=" \o dir,
     "--no-first-run",
     "--no-default-browser-check",
     "--disable-sync",
     "--disable-background-networking",
     "--disable-component-update",
     "--disable-features=Translate,MediaRouter",
     "--disable-session-crashed-bubble",
     "--hide-crash-restore-bubble",
     "--password-store=basic" >>
  \o (IF headless THEN << "--headless=new", "--disable-gpu" >> ELSE << >>)
  \o (IF noSandbox THEN << "--no-sandbox", "--disable-setuid-sandbox" >> ELSE << >>)
  \o (IF platform = "linux" THEN << "--disable-dev-shm-usage" >> ELSE << >>)
  \o << "about:blank" >>

\* no synchronous helper has been called
NoRet == [fn |-> "none"]

\* --------------------------------------------------------- child processes
NoProc == [state |-> "unspawned", killed |-> FALSE, exitCode |-> "null"]

Spawned == {p \in Pids : procs[p].state # "unspawned"}
Alive == {p \in Pids : procs[p].state = "alive"}

\* the pid of the next child: pids are handed out in order and not reused
NextPid == Cardinality(Spawned) + 1

\* child_process.spawn: a new child with killed = false and exitCode = null
spawn(ps, p) ==
  [ps EXCEPT ![p] = [state |-> "alive", killed |-> FALSE, exitCode |-> "null"]]

\* ChildProcess.kill(signal): the signal is delivered (and proc.killed set)
\* iff the child has not exited; it never throws for a valid signal name
kill(ps, p, sig) ==
  [ps EXCEPT ![p].killed = @ \/ (ps[p].state = "alive" /\ sig \in {"SIGTERM", "SIGKILL"})]

\* ------------------------------------------------------------ the endpoint
\* listener is 0 when nothing answers on the port, else the pid of the child
\* that bound it
\* GET http://127.0.0.1:9222/json/version is answered by whoever owns the port
EndpointUp == listener # 0

\* a string that is trimmed is kept as the sequence of its pieces: " " is one
\* blank, any other piece has no blank at its ends
WsUrl == << "ws://0.0.0.0:9222/devtools/browser/abc" >>
WsUrlTexts == { << >>, << " ", " " >>, WsUrl, << " " >> \o WsUrl \o << " " >> }

\* what one GET /json/version can come to: no connection, no answer within
\* the per-attempt timeout, a non-2xx status, or 200 with a body that is not
\* JSON, that is JSON null / a number / an array, or that is an object with or
\* without webSocketDebuggerUrl
NoAnswers ==
  { [kind |-> k, hasUrl |-> FALSE, webSocketDebuggerUrl |-> << >>] :
      k \in {"net_error", "timeout"} }

ProbeAnswers ==
  NoAnswers
  \cup { [kind |-> k, hasUrl |-> FALSE, webSocketDebuggerUrl |-> << >>] :
           k \in {"status", "malformed", "null", "number", "array", "object"} }
  \cup { [kind |-> "object", hasUrl |-> TRUE, webSocketDebuggerUrl |-> u] : u \in WsUrlTexts }

NullVersion == [kind |-> "null", hasUrl |-> FALSE, webSocketDebuggerUrl |-> << >>]
Thrown == [kind |-> "throw", hasUrl |-> FALSE, webSocketDebuggerUrl |-> << >>]

\* variant: fetchChromeVersion without its catch
fetchChromeVersion_noCatch(answer) ==
  IF answer.kind \in {"net_error", "timeout"} THEN Thrown
  ELSE IF answer.kind = "status" THEN NullVersion
  ELSE IF answer.kind = "malformed" THEN Thrown
  ELSE IF answer.kind = "null" THEN NullVersion
  ELSE IF answer.kind = "number" THEN NullVersion
  ELSE answer

\* fetchChromeVersion: the parsed body, or null
fetchChromeVersion(answer) ==
  IF answer.kind \in {"net_error", "timeout"} THEN NullVersion   \* fetch rejects: catch
  ELSE IF answer.kind = "status" THEN NullVersion                \* !res.ok
  ELSE IF answer.kind = "malformed" THEN NullVersion             \* res.json() rejects: catch
  ELSE IF answer.kind = "null" THEN NullVersion                  \* !data
  ELSE IF answer.kind = "number" THEN NullVersion                \* typeof data !== "object"
  ELSE answer                                                    \* objects, arrays included

\* isChromeReachable on one answer: Boolean(version); it has no catch of its
\* own, so it raises when fetchChromeVersion does
isChromeReachableRaises(answer) == fetchChromeVersion(answer) = Thrown
isChromeReachableOn(answer) == fetchChromeVersion(answer) \notin {NullVersion, Thrown}

\* String.prototype.trim on a sequence of pieces
RECURSIVE trimStart(_)
trimStart(t) == IF t # << >> /\ Head(t) = " " THEN trimStart(Tail(t)) ELSE t

RECURSIVE trimEnd(_)
trimEnd(t) ==
  IF t # << >> /\ t[Len(t)] = " " THEN trimEnd(SubSeq(t, 1, Len(t) - 1)) ELSE t

trim(t) == trimEnd(trimStart(t))

\* normalizeCdpWsUrl(wsUrl, cdpUrl): host and scheme of the advertised URL are
\* rewritten to those of the CDP base URL, path and query are kept
normalizeCdpWsUrl(wsUrl, cdpUrl) ==
  IF wsUrl = WsUrl THEN << "ws://127.0.0.1:9222/devtools/browser/abc" >> ELSE wsUrl

\* getChromeWebSocketUrl: << >> stands for null
getChromeWebSocketUrl(answer, cdpUrl) ==
  LET version == fetchChromeVersion(answer)
      wsUrl == trim(IF version # NullVersion /\ version.hasUrl
                      THEN version.webSocketDebuggerUrl ELSE << >>)
  IN IF wsUrl = << >> THEN << >> ELSE normalizeCdpWsUrl(wsUrl, cdpUrl)

\* canOpenWebSocket: the promise, the timer and the two once-listeners
NewHandshake == [result |-> "pending", timer |-> TRUE, onOpen |-> TRUE, onError |-> TRUE]

resolve(h, value) == IF h.result = "pending" THEN [h EXCEPT !.result = value] ELSE h

\* variant: the handshake has no timer of its own
wsEvent_noTimer(h, ev) ==
  IF ev = "open" /\ h.onOpen
    THEN [resolve(h, "true") EXCEPT !.timer = FALSE, !.onOpen = FALSE]
  ELSE IF ev = "error" /\ h.onError
    THEN [resolve(h, "false") EXCEPT !.timer = FALSE, !.onError = FALSE]
  ELSE h

\* one event reaches the handshake: open (lines 102-110), error (111-114), or
\* the timer fires (91-101); a cleared timer does not fire
wsEvent(h, ev) ==
  IF ev = "open" /\ h.onOpen
    THEN [resolve(h, "true") EXCEPT !.timer = FALSE, !.onOpen = FALSE]
  ELSE IF ev = "error" /\ h.onError
    THEN [resolve(h, "false") EXCEPT !.timer = FALSE, !.onError = FALSE]
  ELSE IF ev = "timer" /\ h.timer
    THEN [resolve(h, "false") EXCEPT !.timer = FALSE]
  ELSE h

RECURSIVE wsRun(_, _)
wsRun(h, events) ==
  IF events = << >> THEN h ELSE wsRun(wsEvent(h, Head(events)), Tail(events))

\* canOpenWebSocket(wsUrl) when the socket and the timer deliver events
canOpenWebSocket(events) == wsRun(NewHandshake, events).result

\* isChromeCdpReady on one answer of /json/version and one run of the handshake
isChromeCdpReadyOn(answer, events) ==
  IF getChromeWebSocketUrl(answer, "http://127.0.0.1:9222") = << >>
    THEN [attempted |-> FALSE, out |-> "false"]
    ELSE [attempted |-> TRUE, out |-> canOpenWebSocket(events)]

\* the answers the port can give now
AnswersNow == IF EndpointUp THEN ProbeAnswers ELSE NoAnswers

\* isChromeReachable: true only if the endpoint answers within the per-probe
\* timeout; any error, bad status, bad body or timeout is false
isChromeReachable == {isChromeReachableOn(answer) : answer \in AnswersNow}

\* ------------------------------------------------------------------- calls
\* pc: where the invocation is suspended; op: the function that was called;
\* proc: the child it spawned (launch) or is stopping (stop); res: how it ended;
\* clock: time since the loop's start; probe: result of its latest probe;
\* stale: the handle browserStart discarded; everUp: the endpoint was up at
\* some instant since the spawn; sigkill: it called proc.kill("SIGKILL");
\* cdpIsLoopback, executablePath: the profile and config handed to the launcher
\* ("" is an unset executablePath); arg: the format, kind or action of a tool call
IdleCall == [pc |-> "idle", op |-> "none", proc |-> 0, res |-> "none", clock |-> 0,
             probe |-> FALSE, stale |-> 0, everUp |-> FALSE, sigkill |-> FALSE,
             cdpIsLoopback |-> TRUE, executablePath |-> "", arg |-> ""]

LaunchPcs == {"l_poll", "l_sleep", "l_final"}
StopPcs == {"k_probe", "k_sleep"}

Min(a, b) == IF a < b THEN a ELSE b

\* a slot is free before its first call and after its call has returned; a new
\* call takes the lowest free slot (the slots are interchangeable)
Free(c) == calls[c].pc \in {"idle", "done"}
NextSlot(c) == Free(c) /\ \A b \in Callers : b < c => ~Free(b)

\* the locals of a call that has returned go out of scope
finish(call, res) ==
  [IdleCall EXCEPT !.pc = "done", !.op = call.op, !.res = res, !.probe = call.probe,
                   !.sigkill = call.sigkill, !.cdpIsLoopback = call.cdpIsLoopback,
                   !.executablePath = call.executablePath, !.arg = call.arg]

\* calls that have passed browserStart's entry but may still have to spawn
PendingSpawns == Cardinality({c \in Callers : calls[c].pc = "s_probe"})
SpawnBudget == Cardinality(Spawned) + PendingSpawns < MaxSpawns

\* ------------------------------------------------------- launchClawdChrome
\* variant: the child is spawned before the profile and the executable are checked
launchClawdChrome_spawnFirst(call) ==
  IF ~call.cdpIsLoopback THEN
    [call |-> finish(call, "err_remote"), procs |-> spawn(procs, NextPid)]
  ELSE IF resolveBrowserExecutable(call.executablePath) = ThrowNotFound THEN
    [call |-> finish(call, "err_path"), procs |-> spawn(procs, NextPid)]
  ELSE IF resolveBrowserExecutable(call.executablePath) = NullExe THEN
    [call |-> finish(call, "err_noexe"), procs |-> spawn(procs, NextPid)]
  ELSE
    [call |-> [call EXCEPT !.pc = "l_poll", !.proc = NextPid, !.clock = 0,
                           !.everUp = EndpointUp],
     procs |-> spawn(procs, NextPid)]

\* the synchronous head of launchClawdChrome, up to the first probe of the
\* readiness loop: the two checks, the spawn, the deadline.  When exec fails
\* (EACCES) spawn() still returns a ChildProcess, without pid, and queues its
\* 'error' event; the code goes on into the loop ("l_spawnerr": suspended in
\* the probe of line 189 with that event pending)
launchClawdChrome(call) ==
  IF ~call.cdpIsLoopback THEN
    [call |-> finish(call, "err_remote"), procs |-> procs]
  ELSE IF resolveBrowserExecutable(call.executablePath) = ThrowNotFound THEN
    [call |-> finish(call, "err_path"), procs |-> procs]
  ELSE IF resolveBrowserExecutable(call.executablePath) = NullExe THEN
    [call |-> finish(call, "err_noexe"), procs |-> procs]
  ELSE IF resolveBrowserExecutable(call.executablePath).path \in noExec THEN
    [call |-> [call EXCEPT !.pc = "l_spawnerr", !.proc = 0, !.clock = 0,
                           !.everUp = EndpointUp],
     procs |-> procs]
  ELSE
    [call |-> [call EXCEPT !.pc = "l_poll", !.proc = NextPid, !.clock = 0,
                           !.everUp = EndpointUp],
     procs |-> spawn(procs, NextPid)]

\* variant: a readiness loop without its deadline
ReadyLoopOpen_noDeadline(clock) == TRUE

\* while (Date.now() < readyDeadline)
ReadyLoopOpen(clock) == clock < ReadyDeadline

\* line 189 resolves: break on a reachable endpoint, otherwise sleep 200 ms
LaunchPollDone(c) ==
  /\ calls[c].pc = "l_poll"
  /\ \E ok \in isChromeReachable, d \in {0, 1} :
       calls' = [calls EXCEPT ![c].clock = Min(@ + d, ReadyDeadline),
                              ![c].probe = ok,
                              ![c].pc = IF ok THEN "l_final" ELSE "l_sleep"]
  /\ UNCHANGED << host, activeBrowser, procs, listener, wsAccepts, ret, agent >>

\* line 190 resolves: next loop test, then either a new probe or the final one
LaunchSleepDone(c) ==
  /\ calls[c].pc = "l_sleep"
  /\ LET t == Min(calls[c].clock + 1, ReadyDeadline) IN
       calls' = [calls EXCEPT ![c].clock = t,
                              ![c].pc = IF ReadyLoopOpen(t) THEN "l_poll" ELSE "l_final"]
  /\ UNCHANGED << host, activeBrowser, procs, listener, wsAccepts, ret, agent >>

\* the 'error' event of a child that failed to spawn is emitted on the next
\* tick, before any probe answers; nothing listens for it, so it is thrown as
\* an uncaught exception and the Node process ends: no call of the run
\* returns, the registry is gone, the children already spawned live on
SpawnError(c) ==
  /\ calls[c].pc = "l_spawnerr"
  /\ calls' = [b \in Callers |->
                IF calls[b].pc \in {"idle", "done"} THEN calls[b]
                ELSE finish(calls[b], "uncaught")]
  /\ activeBrowser' = 0
  /\ UNCHANGED << host, procs, listener, wsAccepts, ret, agent >>

\* what launchClawdChrome does once the probe of line 193 has answered
launchOutcome(call, ok) ==
  IF ok THEN
    [call |-> IF call.op = "start" THEN [call EXCEPT !.probe = TRUE, !.pc = "s_assign"]
              ELSE finish([call EXCEPT !.probe = TRUE], "ok"),
     procs |-> procs]
  ELSE
    [call |-> finish([call EXCEPT !.probe = FALSE, !.sigkill = TRUE], "err_connect"),
     procs |-> kill(procs, call.proc, "SIGKILL")]

\* line 193 resolves
LaunchFinalDone(c) ==
  /\ calls[c].pc = "l_final"
  /\ \E ok \in isChromeReachable :
       /\ calls' = [calls EXCEPT ![c] = launchOutcome(calls[c], ok).call]
       /\ procs' = launchOutcome(calls[c], ok).procs
  /\ UNCHANGED << host, activeBrowser, listener, wsAccepts, ret, agent >>

\* launchClawdChrome(resolved, profile) called on its own (it is exported)
CallLaunch(c) ==
  /\ NextSlot(c)
  /\ SpawnBudget
  /\ \E loopback \in BOOLEAN, path \in {"", CustomExe} :
       /\ calls' = [calls EXCEPT ![c] =
            launchClawdChrome([IdleCall EXCEPT !.op = "launch", !.cdpIsLoopback = loopback,
                                               !.executablePath = path]).call]
       /\ procs' =
            launchClawdChrome([IdleCall EXCEPT !.op = "launch", !.cdpIsLoopback = loopback,
                                               !.executablePath = path]).procs
  /\ UNCHANGED << host, activeBrowser, listener, wsAccepts, ret, agent >>

\* ------------------------------------------------------------ browserStart
\* the arguments of lines 350-360: no executablePath, a loopback profile
StartArgs == [IdleCall EXCEPT !.op = "start", !.cdpIsLoopback = TRUE, !.executablePath = ""]

\* browserStart() is called: with a tracked handle it probes the endpoint,
\* without one it runs into launchClawdChrome at once
CallStart(c) ==
  /\ NextSlot(c)
  /\ SpawnBudget
  /\ IF activeBrowser # 0
       THEN /\ calls' = [calls EXCEPT ![c] = [StartArgs EXCEPT !.pc = "s_probe"]]
            /\ procs' = procs
       ELSE /\ calls' = [calls EXCEPT ![c] = launchClawdChrome(StartArgs).call]
            /\ procs' = launchClawdChrome(StartArgs).procs
  /\ UNCHANGED << host, activeBrowser, listener, wsAccepts, ret >>

\* variants of the reuse decision: never reuse, always reuse
reuseTracked_never(ok) == FALSE
reuseTracked_always(ok) == TRUE

\* the reuse decision of browserStart line 342
reuseTracked(ok) == ok

\* the probe of line 342 resolves: return, or drop the handle and launch
StartProbeDone(c) ==
  /\ calls[c].pc = "s_probe"
  /\ \E ok \in isChromeReachable :
       IF reuseTracked(ok)
         THEN /\ calls' = [calls EXCEPT ![c] = finish([calls[c] EXCEPT !.probe = ok], "ok_reuse")]
              /\ UNCHANGED << activeBrowser, procs >>
         ELSE /\ activeBrowser' = 0
              /\ calls' = [calls EXCEPT ![c] =
                   launchClawdChrome([calls[c] EXCEPT !.stale = activeBrowser, !.probe = ok]).call]
              /\ procs' = launchClawdChrome(calls[c]).procs
  /\ UNCHANGED << host, listener, wsAccepts, ret, agent >>

\* the await of line 349 resumes with the handle: activeBrowser = handle
StartAssign(c) ==
  /\ calls[c].pc = "s_assign"
  /\ activeBrowser' = calls[c].proc
  /\ calls' = [calls EXCEPT ![c] =
       finish(calls[c], IF calls[c].stale # 0 THEN "ok_relaunched" ELSE "ok")]
  /\ UNCHANGED << host, procs, listener, wsAccepts, ret, agent >>

\* --------------------------------------------------------- stopClawdChrome
\* while (Date.now() - start < timeoutMs)
StopLoopOpen(clock) == clock < StopTimeout

\* line 228: if (!proc.exitCode && proc.killed) break;
stopBreak(proc) == proc.exitCode \in {"null", "zero"} /\ proc.killed

\* one pass from the loop test of line 227 to the next await or to the end of
\* stopClawdChrome: leave the loop and send SIGKILL, or issue the next probe
stopLoop(call, ps, t) ==
  IF StopLoopOpen(t) /\ ~stopBreak(ps[call.proc])
    THEN [call |-> [call EXCEPT !.clock = t, !.pc = "k_probe"], procs |-> ps]
    ELSE [call |-> [call EXCEPT !.clock = t, !.pc = "k_resume", !.sigkill = TRUE],
          procs |-> kill(ps, call.proc, "SIGKILL")]

\* variant: a failed SIGTERM is not caught, so stopClawdChrome rejects
stopClawdChrome_uncaught(call) ==
  IF procs[call.proc].killed
    THEN [call |-> [call EXCEPT !.pc = "k_resume"], procs |-> procs]
    ELSE IF procs[call.proc].state # "alive"
      THEN [call |-> finish(call, "err_kill"), procs |-> procs]
      ELSE stopLoop(call, kill(procs, call.proc, "SIGTERM"), 0)

\* the synchronous head of stopClawdChrome(running)
stopClawdChrome(call) ==
  IF procs[call.proc].killed
    THEN [call |-> [call EXCEPT !.pc = "k_resume"], procs |-> procs]
    ELSE stopLoop(call, kill(procs, call.proc, "SIGTERM"), 0)

\* variant: a stop that finds nothing tracked signals every live child
CallStop_sweep(c) ==
  /\ NextSlot(c)
  /\ IF activeBrowser = 0
       THEN /\ calls' = [calls EXCEPT ![c] = finish([IdleCall EXCEPT !.op = "stop"], "ok_absent")]
            /\ procs' = [p \in Pids |-> kill(procs, p, "SIGTERM")[p]]
       ELSE /\ calls' = [calls EXCEPT ![c] =
                 stopClawdChrome([IdleCall EXCEPT !.op = "stop", !.proc = activeBrowser]).call]
            /\ procs' =
                 stopClawdChrome([IdleCall EXCEPT !.op = "stop", !.proc = activeBrowser]).procs
  /\ UNCHANGED << host, activeBrowser, listener, wsAccepts, ret >>

\* browserStop() is called
CallStop(c) ==
  /\ NextSlot(c)
  /\ IF activeBrowser = 0
       THEN /\ calls' = [calls EXCEPT ![c] = finish([IdleCall EXCEPT !.op = "stop"], "ok_absent")]
            /\ procs' = procs
       ELSE /\ calls' = [calls EXCEPT ![c] =
                 stopClawdChrome([IdleCall EXCEPT !.op = "stop", !.proc = activeBrowser]).call]
            /\ procs' =
                 stopClawdChrome([IdleCall EXCEPT !.op = "stop", !.proc = activeBrowser]).procs
  /\ UNCHANGED << host, activeBrowser, listener, wsAccepts, ret >>

\* line 229 resolves: an unreachable endpoint ends stopClawdChrome
StopProbeDone(c) ==
  /\ calls[c].pc = "k_probe"
  /\ \E ok \in isChromeReachable, d \in {0, 1} :
       calls' = [calls EXCEPT ![c].clock = Min(@ + d, StopTimeout),
                              ![c].probe = ok,
                              ![c].pc = IF ok THEN "k_sleep" ELSE "k_resume"]
  /\ UNCHANGED << host, activeBrowser, procs, listener, wsAccepts, ret, agent >>

\* line 230 resolves: back to the loop test
StopSleepDone(c) ==
  /\ calls[c].pc = "k_sleep"
  /\ calls' = [calls EXCEPT ![c] =
       stopLoop(calls[c], procs, Min(calls[c].clock + 1, StopTimeout)).call]
  /\ procs' = stopLoop(calls[c], procs, Min(calls[c].clock + 1, StopTimeout)).procs
  /\ UNCHANGED << host, activeBrowser, listener, wsAccepts, ret, agent >>

\* the await of line 366 resumes: activeBrowser = null
StopResume(c) ==
  /\ calls[c].pc = "k_resume"
  /\ activeBrowser' = 0
  /\ calls' = [calls EXCEPT ![c] = finish(calls[c], "ok")]
  /\ UNCHANGED << host, procs, listener, wsAccepts, ret, agent >>

\* ------------------------------------------- getCdpUrl, snapshot, act, tool
\* cdpPort of the handle browserStart tracks (its profile, line 356)
StartCdpPort == "9222"

NotStarted == "Error: Browser not started"

\* variant: getCdpUrl does not look at the registry
getCdpUrl_blind == "http://127.0.0.1:" \o StartCdpPort

getCdpUrl ==
  IF activeBrowser = 0 THEN NotStarted ELSE "http://127.0.0.1:" \o StartCdpPort

\* the Playwright helpers work on the page over CDP; they return or throw
PlaywrightResults == {"ok", "err_playwright"}

SnapshotFormats == {"ai", "aria"}
ActKinds == {"navigate", "click", "type", "scroll", "hover"}

\* browserSnapshot({format}) is called
CallSnapshot(c) ==
  /\ NextSlot(c)
  /\ \E format \in SnapshotFormats \cup {"png"}, pw \in PlaywrightResults :
       LET call == [IdleCall EXCEPT !.op = "snapshot", !.arg = format] IN
       calls' = [calls EXCEPT ![c] =
         IF getCdpUrl = NotStarted THEN finish(call, "err_not_started")
         ELSE IF format \in SnapshotFormats THEN finish(call, pw)
         ELSE finish(call, "err_format")]
  /\ UNCHANGED << host, activeBrowser, procs, listener, wsAccepts, ret >>

\* variant: an unknown kind drops the tracked handle
CallAct_reset(c) ==
  /\ NextSlot(c)
  /\ \E kind \in ActKinds \cup {"drag"}, pw \in PlaywrightResults :
       LET call == [IdleCall EXCEPT !.op = "act", !.arg = kind] IN
       /\ calls' = [calls EXCEPT ![c] =
            IF getCdpUrl = NotStarted THEN finish(call, "err_not_started")
            ELSE IF kind \in ActKinds THEN finish(call, pw)
            ELSE finish(call, "err_action")]
       /\ activeBrowser' = IF kind \in ActKinds THEN activeBrowser ELSE 0
  /\ UNCHANGED << host, procs, listener, wsAccepts, ret >>

\* browserAct(kind, request) is called
CallAct(c) ==
  /\ NextSlot(c)
  /\ \E kind \in ActKinds \cup {"drag"}, pw \in PlaywrightResults :
       LET call == [IdleCall EXCEPT !.op = "act", !.arg = kind] IN
       /\ calls' = [calls EXCEPT ![c] =
            IF getCdpUrl = NotStarted THEN finish(call, "err_not_started")
            ELSE IF kind \in ActKinds THEN finish(call, pw)
            ELSE finish(call, "err_action")]
       /\ activeBrowser' = activeBrowser
  /\ UNCHANGED << host, procs, listener, wsAccepts, ret >>

\* execute() falls into the default branch, or finds no request for act
CallUnknown(c) ==
  /\ NextSlot(c)
  /\ \E action \in {"open", "act"} :
       calls' = [calls EXCEPT ![c] =
         finish([IdleCall EXCEPT !.op = "tool", !.arg = action],
                IF action = "act" THEN "err_request" ELSE "err_action")]
  /\ UNCHANGED << host, activeBrowser, procs, listener, wsAccepts, ret >>

\* browserTool.execute(args): the switch over args.action; what the callee
\* throws comes back as an isError result
execute(c) ==
  \/ CallStart(c)
  \/ CallStop(c)
  \/ CallSnapshot(c)
  \/ CallAct(c)
  \/ CallUnknown(c)

\* the ways a call of the tool's operations returns, and the ways it throws
Returned == {"ok", "ok_reuse", "ok_relaunched", "ok_absent"}
Threw == {"err_remote", "err_path", "err_noexe", "err_connect", "err_not_started",
          "err_format", "err_action", "err_request", "err_playwright"}

\* err.message of what was thrown
errMessage(call) ==
  CASE call.res = "err_remote" -> "Profile \"default\" is remote; cannot launch local Chrome."
    [] call.res = "err_path" -> "browser.executablePath not found: " \o call.executablePath
    [] call.res = "err_noexe" ->
         "No supported browser found (Chrome/Brave/Edge/Chromium on macOS, Linux, or Windows)."
    [] call.res = "err_connect" ->
         "Failed to start Chrome CDP on port " \o StartCdpPort \o " for profile \"default\"."
    [] call.res = "err_not_started" -> "Browser not started"
    [] call.res = "err_format" -> "Unsupported format"
    [] call.res = "err_action" -> "Unknown action: " \o call.arg
    [] call.res = "err_request" -> "Missing request object for action=act"
    [] OTHER -> "playwright"

\* the text of a result of the try block
okText(call) ==
  CASE call.op = "start" -> "Browser started."
    [] call.op = "stop" -> "Browser stopped."
    [] call.op = "snapshot" -> "snapshot"
    [] OTHER -> "Action executed."

\* execute() has given its caller nothing: its promise did not settle
NoResult == [settled |-> FALSE, text |-> << >>, isError |-> "undefined"]

\* what the promise of execute() holds once the call is over: the return of
\* the try block, or the return of the catch block; text is the template
\* literal in its pieces
executeResult(call) ==
  IF call.res \in Returned THEN
    [settled |-> TRUE, text |-> << okText(call) >>, isError |-> "undefined"]
  ELSE IF call.res \in Threw THEN
    [settled |-> TRUE, text |-> << "Error: ", errMessage(call) >>, isError |-> "true"]
  ELSE NoResult

\* ------------------------------------------------------------- environment
\* every launch that is past its spawn sees the endpoint come up
noteUp(cs) ==
  [c \in Callers |-> IF cs[c].pc \in LaunchPcs THEN [cs[c] EXCEPT !.everUp = TRUE] ELSE cs[c]]

\* a live child opens --remote-debugging-port=9222 (the port must be free)
Bind(p) ==
  /\ procs[p].state = "alive"
  /\ listener = 0
  /\ listener' = p
  /\ calls' = noteUp(calls)
  /\ UNCHANGED << host, activeBrowser, procs, wsAccepts, ret, agent >>

\* isChromeCdpReady: /json/version names a debugger URL and a WebSocket
\* handshake to it completes in time
isChromeCdpReady == IF EndpointUp /\ wsAccepts THEN {TRUE, FALSE} ELSE {FALSE}

\* the browser behind the port starts to accept WebSocket handshakes
WsOpen ==
  /\ listener # 0 /\ ~wsAccepts
  /\ wsAccepts' = TRUE
  /\ UNCHANGED << host, activeBrowser, procs, listener, calls, ret, agent >>

\* exitCode stays null when a signal ends the child, else it is the status;
\* status 0 reads like null in the one test of exitCode (chrome.ts line 228)
ExitCodes == {"null", "nonzero"}

\* a child exits: by itself, on a signal of this program, or killed externally
Exit(p) ==
  /\ procs[p].state = "alive"
  /\ \E code \in ExitCodes :
       procs' = [procs EXCEPT ![p].state = "exited", ![p].exitCode = code]
  /\ listener' = IF listener = p THEN 0 ELSE listener
  /\ wsAccepts' = (listener # p /\ wsAccepts)
  /\ UNCHANGED << host, activeBrowser, calls, ret, agent >>

\* ------------------------------------------------------------------ run()
\* const maxIterations = 20
maxIterations == 20

\* run() has not been called; iterations is the counter of line 87, stop says
\* that the cleanup call of line 151 was made
NoRun == [pc |-> "init", iterations |-> 0, stop |-> FALSE]

\* ----------------------------------------------------------- specification
Hosts ==
  { [platform |-> "linux", files |-> {"/usr/bin/chromium"}, defaultBundle |-> "", noExec |-> {}],
    [platform |-> "win32", files |-> {}, defaultBundle |-> "", noExec |-> {}] }

InitOn(hosts) ==
  /\ \E h \in hosts :
       /\ platform = h.platform
       /\ files = h.files
       /\ defaultBundle = h.defaultBundle
       /\ noExec = h.noExec
  /\ activeBrowser = 0
  /\ procs = [p \in Pids |-> NoProc]
  /\ listener = 0
  /\ calls = [c \in Callers |-> IdleCall]
  /\ wsAccepts = FALSE
  /\ ret = NoRet
  /\ agent = NoRun

Init == InitOn(Hosts)

\* the continuation of an in-flight call: a probe answers, a timer fires, an
\* await resumes
Step(c) ==
  \/ StartProbeDone(c)
  \/ LaunchPollDone(c)
  \/ LaunchSleepDone(c)
  \/ LaunchFinalDone(c)
  \/ StartAssign(c)
  \/ StopProbeDone(c)
  \/ StopSleepDone(c)
  \/ StopResume(c)

Next ==
  \/ \E c \in Callers : CallStart(c) /\ UNCHANGED agent
  \/ \E c \in Callers : CallStop(c) /\ UNCHANGED agent
  \/ \E c \in Callers : Step(c)
  \/ \E p \in Pids : Bind(p)
  \/ \E p \in Pids : Exit(p)

Spec == Init /\ [][Next]_vars

\* every probe is bounded by its abort timer and every sleep by its timer, so
\* the event loop always runs the continuation of an in-flight call
FairSpec == Spec /\ \A c \in Callers : WF_vars(Step(c))

\* the agent loop of index.ts: every tool call is awaited before the next
Awaited == \A c \in Callers : Free(c)

NextTool ==
  \/ \E c \in Callers : Awaited /\ execute(c) /\ UNCHANGED agent
  \/ \E c \in Callers : Step(c)
  \/ \E p \in Pids : Bind(p)
  \/ WsOpen
  \/ \E p \in Pids : Exit(p)

SpecTool == Init /\ [][NextTool]_vars

\* ------------------------------------------- the synchronous helpers alone
\* resolveBrowserExecutableForPlatform(resolved, platform) is called
CallResolve ==
  /\ \E executablePath \in {"", CustomExe}, plat \in Platforms :
       ret' = [fn |-> "resolveBrowserExecutableForPlatform",
               executablePath |-> executablePath, platform |-> plat,
               out |-> resolveBrowserExecutableForPlatform(executablePath, plat),
               consulted |-> resolveConsults(executablePath, plat)]
  /\ UNCHANGED << host, activeBrowser, procs, listener, wsAccepts, calls, agent >>

CdpPorts == {"9222", "18800"}

\* spawnOnce() builds its argument vector
CallSpawnOnce ==
  /\ \E headless \in BOOLEAN, noSandbox \in BOOLEAN, cdpPort \in CdpPorts :
       ret' = [fn |-> "spawnOnce", headless |-> headless, noSandbox |-> noSandbox,
               cdpPort |-> cdpPort,
               args |-> spawnOnceArgs(headless, noSandbox, cdpPort, userDataDir("default"))]
  /\ UNCHANGED << host, activeBrowser, procs, listener, wsAccepts, calls, agent >>

\* every host: each platform, each set of installed browsers, each default
PureFiles ==
  {CandidatesLinux[i].path : i \in 1..Len(CandidatesLinux)} \cup {CustomExe, BraveMac}

HostsPure ==
  [platform : {"darwin", "linux", "win32"}, files : SUBSET PureFiles,
   defaultBundle : BundleIds, noExec : {{}}]

InitPure == InitOn(HostsPure)

NextPure == CallResolve \/ CallSpawnOnce

SpecPure == InitPure /\ [][NextPure]_vars

\* isChromeReachable(cdpUrl) is called on its own (it is exported)
CallProbe ==
  /\ \E answer \in ProbeAnswers :
       ret' = [fn |-> "isChromeReachable", answer |-> answer,
               raised |-> isChromeReachableRaises(answer),
               out |-> isChromeReachableOn(answer)]
  /\ UNCHANGED << host, activeBrowser, procs, listener, wsAccepts, calls, agent >>

\* every order in which open, error and the timer can reach one handshake
HandshakeEvents == {"open", "error", "timer"}
HandshakeRuns ==
  { r \in UNION {[1..n -> HandshakeEvents] : n \in 1..3} :
      \A i, j \in DOMAIN r : i # j => r[i] # r[j] }

\* isChromeCdpReady(cdpUrl) is called (it is exported)
CallCdpReady ==
  /\ \E answer \in ProbeAnswers, events \in HandshakeRuns :
       ret' = [fn |-> "isChromeCdpReady", answer |-> answer, events |-> events,
               attempted |-> isChromeCdpReadyOn(answer, events).attempted,
               out |-> isChromeCdpReadyOn(answer, events).out]
  /\ UNCHANGED << host, activeBrowser, procs, listener, wsAccepts, calls, agent >>

SpecReady == Init /\ [][CallCdpReady]_vars

\* the launcher alone, called with every profile and config
HostsLaunch == Hosts \cup {[platform |-> "linux", files |-> {CustomExe}, defaultBundle |-> "", noExec |-> {}]}

InitLaunch == InitOn(HostsLaunch)

LaunchStep(c) ==
  \/ LaunchPollDone(c)
  \/ LaunchSleepDone(c)
  \/ LaunchFinalDone(c)

NextLaunch ==
  \/ \E c \in Callers : CallLaunch(c)
  \/ \E c \in Callers : LaunchStep(c)
  \/ \E p \in Pids : Bind(p)
  \/ \E p \in Pids : Exit(p)

SpecLaunch == InitLaunch /\ [][NextLaunch]_vars

TypeOK ==
  /\ activeBrowser \in Pids \cup {0}
  /\ listener \in Pids \cup {0}
  /\ \A c \in Callers : calls[c].clock \in 0..(ReadyDeadline + StopTimeout)

\* the prober, alone and inside the launcher's loop
NextProbe ==
  \/ CallProbe
  \/ \E c \in Callers : CallLaunch(c)
  \/ \E c \in Callers : LaunchStep(c)
  \/ \E p \in Pids : Bind(p)
  \/ \E p \in Pids : Exit(p)

SpecProbe == InitLaunch /\ [][NextProbe]_vars

\* the launcher on hosts where the resolved executable cannot be executed
HostsSpawnFail ==
  HostsLaunch \cup
  {[platform |-> "linux", files |-> {CustomExe, "/usr/bin/chromium"}, defaultBundle |-> "",
    noExec |-> {CustomExe}]}

InitSpawnFail == InitOn(HostsSpawnFail)

NextSpawnFail ==
  \/ \E c \in Callers : CallLaunch(c)
  \/ \E c \in Callers : LaunchStep(c)
  \/ \E c \in Callers : SpawnError(c)
  \/ \E p \in Pids : Bind(p)
  \/ \E p \in Pids : Exit(p)

SpecSpawnFail == InitSpawnFail /\ [][NextSpawnFail]_vars

\* the tool on hosts where the browser that is found cannot be executed
HostsToolFail ==
  Hosts \cup
  {[platform |-> "linux", files |-> {"/usr/bin/chromium"}, defaultBundle |-> "",
    noExec |-> {"/usr/bin/chromium"}]}

InitToolFail == InitOn(HostsToolFail)

NextToolFail ==
  \/ NextTool
  \/ \E c \in Callers : SpawnError(c)

SpecToolFail == InitToolFail /\ [][NextToolFail]_vars

\* ------------------------------------------------------------ the agent loop
\* what the completion request of line 93 brings: a rejection, no message, a
\* tool call of the browser tool whose arguments parse, one whose arguments
\* do not parse, a tool call of another name, text with a JSON command, text
\* without one
Completions ==
  {"throws", "empty", "tool_call", "bad_arguments", "other_tool", "text_json", "final"}

\* the loop is left: line 151 calls execute({action: "stop"}) and awaits it
RunLeave(c) ==
  /\ CallStop(c)
  /\ agent' = [agent EXCEPT !.pc = "cleanup", !.stop = TRUE]

\* the loop test of line 90: the next completion request, or the cleanup
RunLoop(c) ==
  IF agent.iterations < maxIterations
    THEN /\ agent' = [agent EXCEPT !.iterations = @ + 1, !.pc = "llm"]
         /\ UNCHANGED << host, activeBrowser, procs, listener, wsAccepts, calls, ret >>
    ELSE RunLeave(c)

\* run() is called with a query
RunEnter(c) ==
  /\ agent.pc = "init"
  /\ Awaited
  /\ RunLoop(c)

\* the await of line 93 resumes
RunCompletion(c) ==
  /\ agent.pc = "llm"
  /\ \E completion \in Completions :
       CASE completion \in {"throws", "bad_arguments"} ->
              /\ agent' = [agent EXCEPT !.pc = "rejected"]
              /\ UNCHANGED << host, activeBrowser, procs, listener, wsAccepts, calls, ret >>
         [] completion \in {"empty", "final"} -> RunLeave(c)
         [] completion \in {"tool_call", "text_json"} ->
              /\ execute(c)
              /\ agent' = [agent EXCEPT !.pc = "tool"]
         [] OTHER -> RunLoop(c)

\* the await of line 112 or 135 resumes with the tool's result
RunToolDone(c) ==
  /\ agent.pc = "tool"
  /\ Awaited
  /\ RunLoop(c)

\* the await of line 151 resumes: run() resolves
RunCleanupDone ==
  /\ agent.pc = "cleanup"
  /\ Awaited
  /\ agent' = [agent EXCEPT !.pc = "finished"]
  /\ UNCHANGED << host, activeBrowser, procs, listener, wsAccepts, calls, ret >>

NextRun ==
  \/ \E c \in Callers : RunEnter(c)
  \/ \E c \in Callers : RunCompletion(c)
  \/ \E c \in Callers : RunToolDone(c)
  \/ RunCleanupDone
  \/ \E c \in Callers : Step(c)
  \/ \E p \in Pids : Bind(p)
  \/ WsOpen
  \/ \E p \in Pids : Exit(p)

SpecRun == Init /\ [][NextRun]_vars

\* ================================================================== claims
\* the call of slot c takes a step that ends it
Ends(c) == calls'[c] # calls[c] /\ calls'[c].pc = "done"
InFlight(c) == calls[c].pc \notin {"idle", "done"}

\* C1: concurrent browserStart() calls issued while nothing is tracked spawn
\* at most one browser process: two starts that are both past their spawn
\* wait for the same child.
C1_ConcurrentStartsOneProcess ==
  \A a, b \in Callers :
    ( /\ a # b
      /\ calls[a].op = "start" /\ calls[b].op = "start"
      /\ calls[a].pc \in LaunchPcs /\ calls[b].pc \in LaunchPcs
      /\ calls[a].stale = 0 /\ calls[b].stale = 0 )
    => calls[a].proc = calls[b].proc

\* C2: a browserStart() whose probe of the tracked endpoint answers reachable
\* returns without spawning and leaves the tracked handle as it is.
C2_ReuseIsNoOp ==
  [][\A c \in Callers :
       (calls[c].pc = "s_probe" /\ calls'[c].pc # "s_probe" /\ calls'[c].probe)
       => /\ calls'[c].pc = "done" /\ calls'[c].res = "ok_reuse"
          /\ activeBrowser' = activeBrowser
          /\ procs' = procs]_vars

\* start, then start again on a reachable session: one child in total
C2_Witness ==
  /\ \E c \in Callers : calls[c].res = "ok_reuse"
  /\ Cardinality(Spawned) = 1
  /\ activeBrowser = 1 /\ listener = 1

\* C3: at most one live child of this program uses the user-data directory of
\* profile "default" (every child of browserStart uses it).
C3_OneLiveProcessPerProfile == Cardinality(Alive) <= 1

\* C4: when the tracked child has exited and nothing answers on the port, the
\* probe of browserStart discards the handle and spawns a new child; when that
\* launch succeeds the registry holds the new child, whose pid is not the
\* stale one.
C4_Recovery ==
  [][\A c \in Callers :
       /\ ( /\ calls[c].pc = "s_probe" /\ calls'[c].pc # "s_probe"
            /\ activeBrowser # 0 /\ procs[activeBrowser].state = "exited"
            /\ ~EndpointUp )
          => /\ activeBrowser' = 0
             /\ calls'[c].pc = "l_poll"
             /\ calls'[c].stale = activeBrowser
             /\ calls'[c].proc \notin Spawned
             /\ procs'[calls'[c].proc].state = "alive"
       /\ (calls[c].pc = "s_assign" /\ calls[c].stale # 0 /\ Ends(c))
          => /\ activeBrowser' = calls[c].proc
             /\ activeBrowser' # calls[c].stale
             /\ calls'[c].res = "ok_relaunched"]_vars

\* the relaunch has completed: a new live child is tracked, the old one is gone
C4_Witness ==
  /\ \E c \in Callers : calls[c].res = "ok_relaunched"
  /\ activeBrowser = 2 /\ procs[2].state = "alive" /\ listener = 2
  /\ procs[1].state = "exited" /\ ~procs[1].killed

\* C5: every browserStop() ends with the registry empty.
C5_StopClearsRegistry ==
  [][\A c \in Callers :
       (Ends(c) /\ calls'[c].op = "stop") => activeBrowser' = 0]_vars

\* a stop of a tracked session has returned although the child ignores its
\* signals and still answers on the port
C5_Witness ==
  \E c \in Callers, p \in Pids :
    /\ calls[c].op = "stop" /\ calls[c].res = "ok" /\ calls[c].pc = "done"
    /\ procs[p].state = "alive" /\ procs[p].killed /\ listener = p
    /\ activeBrowser = 0

\* C6: a launch whose endpoint was never up since the spawn sends SIGKILL to
\* its child before it fails, and the registry is empty when browserStart()
\* fails.
C6_FailedLaunchLeavesNothing ==
  [][\A c \in Callers :
       (calls[c].pc = "l_final" /\ ~calls[c].everUp /\ Ends(c))
       => /\ calls'[c].res = "err_connect"
          /\ calls'[c].sigkill
          /\ procs[calls[c].proc].state = "alive" => procs'[calls[c].proc].killed
          /\ activeBrowser' = 0]_vars

\* C7: every browserStart() and browserStop() call returns or raises.
C7_CallsEnd ==
  \A c \in Callers : InFlight(c) ~> (calls[c].pc = "done")

\* a launch has run into its deadline and a stop into its timeout
C7_Witness ==
  /\ \E c \in Callers : calls[c].res = "err_connect"
  /\ \E c \in Callers : calls[c].pc = "k_resume" /\ calls[c].clock = StopTimeout

\* C8: a stop sends SIGKILL only when its wait has run out.
C8_SigkillOnlyAfterWait ==
  \A c \in Callers :
    (calls[c].pc = "k_resume" /\ calls[c].sigkill) => ~StopLoopOpen(calls[c].clock)

\* C9: at most one launchClawdChrome() or stopClawdChrome() is suspended.
C9_OneOperationInFlight ==
  Cardinality({c \in Callers : calls[c].pc \in LaunchPcs \cup StopPcs}) <= 1

\* C10: a launchClawdChrome() for a profile that is not loopback, or for which
\* no executable resolves, raises without spawning; a child is spawned only
\* when both checks pass.
C10_ChecksBeforeSpawn ==
  [][\A c \in Callers :
       (~InFlight(c) /\ calls'[c] # calls[c] /\ calls'[c].op = "launch")
       => LET rejected ==
                \/ ~calls'[c].cdpIsLoopback
                \/ resolveBrowserExecutable(calls'[c].executablePath)
                     \in {NullExe, ThrowNotFound}
          IN /\ rejected => /\ procs' = procs
                            /\ calls'[c].pc = "done"
                            /\ calls'[c].res \in {"err_remote", "err_path", "err_noexe"}
             /\ ~rejected => /\ calls'[c].pc = "l_poll"
                             /\ procs'[calls'[c].proc].state = "alive"
                             /\ procs[calls'[c].proc].state = "unspawned"]_vars

\* a remote profile was rejected although its executable exists, and no child
\* was spawned
C10_Witness ==
  /\ \E c \in Callers :
       /\ calls[c].op = "launch" /\ calls[c].res = "err_remote"
       /\ calls[c].executablePath = CustomExe /\ exists(CustomExe)
  /\ Spawned = {}

\* C11: resolveBrowserExecutableForPlatform() with an executablePath that does
\* not exist raises, on every platform and whatever is installed, without
\* consulting default-browser detection or the candidate list; with an existing
\* executablePath it returns {kind: custom, path: executablePath}.
C11_ExplicitPathIsFinal ==
  (ret.fn = "resolveBrowserExecutableForPlatform" /\ ret.executablePath # "")
  => /\ ret.consulted \cap {"detectDefault", "candidates"} = {}
     /\ IF ret.executablePath \in files
          THEN ret.out = [kind |-> "custom", path |-> ret.executablePath]
          ELSE ret.out = ThrowNotFound

\* a missing explicit path raised on a Linux host with an installed Chrome
C11_Witness ==
  /\ ret.fn = "resolveBrowserExecutableForPlatform"
  /\ ret.executablePath = CustomExe /\ ret.platform = "linux"
  /\ "/usr/bin/google-chrome" \in files
  /\ CustomExe \notin files /\ ret.out = ThrowNotFound

\* C16: on Linux with no executablePath the resolver returns the first existing
\* path of the ordered candidate list (google-chrome, google-chrome-stable,
\* chrome, chromium, chromium-browser, /snap/bin/chromium), or null when none
\* exists; default-browser detection yields nothing.
C16_LinuxFirstCandidate ==
  ( /\ ret.fn = "resolveBrowserExecutableForPlatform"
    /\ ret.executablePath = "" /\ ret.platform = "linux" )
  => LET order == << "/usr/bin/google-chrome", "/usr/bin/google-chrome-stable",
                     "/usr/bin/chrome", "/usr/bin/chromium",
                     "/usr/bin/chromium-browser", "/snap/bin/chromium" >>
         found == {i \in 1..Len(order) : order[i] \in files}
     IN IF found = {} THEN ret.out = NullExe
        ELSE ret.out.path = order[CHOOSE i \in found : \A j \in found : i <= j]

\* C18: the argument vector of spawn is the eleven fixed flags, then
\* --headless=new --disable-gpu iff headless, then --no-sandbox
\* --disable-setuid-sandbox iff noSandbox, then --disable-dev-shm-usage iff the
\* platform is linux, then about:blank.
C18_SpawnArguments ==
  ret.fn = "spawnOnce"
  => LET a == ret.args
         h == IF ret.headless THEN 2 ELSE 0
         s == IF ret.noSandbox THEN 2 ELSE 0
         l == IF platform = "linux" THEN 1 ELSE 0
         flags == {a[i] : i \in 1..Len(a)}
     IN /\ Len(a) = 11 + h + s + l + 1
        /\ a[1] = "--remote-debugging-port=" \o ret.cdpPort
        /\ a[2] = "--user-data-dir=/cwd/browser-data/default"
        /\ SubSeq(a, 3, 11) =
             << "--no-first-run", "--no-default-browser-check", "--disable-sync",
                "--disable-background-networking", "--disable-component-update",
                "--disable-features=Translate,MediaRouter",
                "--disable-session-crashed-bubble", "--hide-crash-restore-bubble",
                "--password-store=basic" >>
        /\ IF ret.headless
             THEN a[12] = "--headless=new" /\ a[13] = "--disable-gpu"
             ELSE flags \cap {"--headless=new", "--disable-gpu"} = {}
        /\ IF ret.noSandbox
             THEN a[12 + h] = "--no-sandbox" /\ a[13 + h] = "--disable-setuid-sandbox"
             ELSE flags \cap {"--no-sandbox", "--disable-setuid-sandbox"} = {}
        /\ IF platform = "linux"
             THEN a[12 + h + s] = "--disable-dev-shm-usage"
             ELSE "--disable-dev-shm-usage" \notin flags
        /\ a[Len(a)] = "about:blank"

\* a headless, unsandboxed launch on linux: all five optional flags are there
C18_Witness ==
  /\ ret.fn = "spawnOnce" /\ ret.headless /\ ret.noSandbox /\ platform = "linux"
  /\ Len(ret.args) = 17 /\ ret.args[16] = "--disable-dev-shm-usage"

\* C13: browserStop() called while nothing is tracked returns without error in
\* the same step: no signal is sent, no probe is issued, the registry stays
\* empty.
C13_StopAbsentIsNoOp ==
  [][\A c \in Callers :
       ( /\ ~InFlight(c) /\ calls'[c] # calls[c] /\ calls'[c].op = "stop"
         /\ activeBrowser = 0 )
       => /\ calls'[c].pc = "done" /\ calls'[c].res = "ok_absent"
          /\ procs' = procs
          /\ activeBrowser' = 0]_vars

\* a stop returned at once while an untracked child of this program is alive
\* and has received no signal
C13_Witness ==
  /\ \E c \in Callers : calls[c].op = "stop" /\ calls[c].res = "ok_absent"
  /\ \E p \in Pids : procs[p].state = "alive" /\ ~procs[p].killed
  /\ activeBrowser = 0

\* C14: when a browserStart() or browserStop() ends with an error the registry
\* tracks no handle.
C14_ErrorLeavesRegistryEmpty ==
  [][\A c \in Callers :
       ( /\ Ends(c) /\ calls'[c].op \in {"start", "stop"}
         /\ calls'[c].res \in {"err_remote", "err_path", "err_noexe", "err_connect"} )
       => activeBrowser' = 0]_vars

\* C12: with every tool call awaited, getCdpUrl raises "Browser not started"
\* exactly when the registry is empty and returns http://127.0.0.1:9222
\* otherwise; it returns the URL when a start has succeeded and raises when a
\* stop has returned.
C12_CdpUrlFollowsRegistry ==
  [][/\ (getCdpUrl' = "Error: Browser not started") <=> (activeBrowser' = 0)
     /\ activeBrowser' # 0 => getCdpUrl' = "http://127.0.0.1:9222"
     /\ \A c \in Callers :
          /\ ( /\ Ends(c) /\ calls'[c].op = "start"
               /\ calls'[c].res \in {"ok", "ok_reuse", "ok_relaunched"} )
             => getCdpUrl' = "http://127.0.0.1:9222"
          /\ (Ends(c) /\ calls'[c].op = "stop")
             => getCdpUrl' = "Error: Browser not started"
          /\ ( /\ ~InFlight(c) /\ calls'[c] # calls[c]
               /\ calls'[c].op \in {"snapshot", "act"} )
             => (calls'[c].res = "err_not_started" <=> activeBrowser = 0)]_vars

\* start, then a snapshot that got the URL, then stop: the registry is empty
\* again and the child is gone
C12_Witness ==
  /\ calls[1].op = "stop" /\ calls[1].res = "ok" /\ calls[1].pc = "done"
  /\ getCdpUrl = NotStarted
  /\ procs[1].state = "exited" /\ procs[1].killed

\* C15: a handle is recorded only when the endpoint answers /json/version and
\* completes WebSocket handshakes.
C15_TrackedOnlyWhenWsReady ==
  [][(activeBrowser' # 0 /\ activeBrowser' # activeBrowser)
     => TRUE \in isChromeCdpReady]_vars

\* C17: a tool call with an unsupported action, an act with an unsupported
\* kind or a snapshot with an unsupported format ends as an error of that call
\* in the same step; the registry and the child processes are as before.
C17_UnsupportedCallIsFrameNeutral ==
  [][\A c \in Callers :
       ( /\ ~InFlight(c) /\ calls'[c] # calls[c]
         /\ \/ calls'[c].op = "tool"
            \/ calls'[c].op = "act" /\ calls'[c].arg \notin {"navigate", "click", "type", "scroll", "hover"}
            \/ calls'[c].op = "snapshot" /\ calls'[c].arg \notin {"ai", "aria"} )
       => /\ calls'[c].pc = "done"
          /\ calls'[c].res \in {"err_action", "err_request", "err_format", "err_not_started"}
          /\ activeBrowser' = activeBrowser
          /\ procs' = procs]_vars

\* an act of unknown kind was refused while a live session is tracked, and
\* that session is untouched
C17_Witness ==
  /\ calls[1].op = "act" /\ calls[1].arg = "drag" /\ calls[1].res = "err_action"
  /\ activeBrowser = 1 /\ procs[1].state = "alive" /\ ~procs[1].killed
  /\ listener = 1

\* C19: when the spawn fails, launchClawdChrome() raises in the step that
\* called spawn, without a probe, and a launch that returns a handle has a
\* child with a pid.
C19_SpawnFailureIsImmediate ==
  [][\A c \in Callers :
       /\ ( /\ ~InFlight(c) /\ calls'[c] # calls[c] /\ calls'[c].op = "launch"
            /\ calls'[c].cdpIsLoopback
            /\ resolveBrowserExecutable(calls'[c].executablePath).path \in noExec )
          => calls'[c].pc = "done" /\ calls'[c].res = "err_spawn"
       /\ (Ends(c) /\ calls'[c].res = "ok") => calls[c].proc # 0]_vars

\* C20: a launch in which a probe of the polling loop saw the endpoint
\* reachable returns a handle and sends no signal to its child.
C20_LoopSuccessMeansHandle ==
  [][\A c \in Callers :
       (calls[c].pc = "l_final" /\ calls[c].probe /\ calls'[c].pc # "l_final")
       => /\ calls'[c].res # "err_connect"
          /\ ~calls'[c].sigkill
          /\ procs' = procs]_vars

C22_CdpReadyExactly ==
  ret.fn = "isChromeCdpReady"
  => LET url == ret.answer.webSocketDebuggerUrl
         notBlank == /\ ret.answer.kind = "object" /\ ret.answer.hasUrl
                     /\ \E i \in DOMAIN url : url[i] # " "
     IN /\ ret.out \in {"true", "false"}
        /\ ret.out = "true" <=> (notBlank /\ ret.events[1] = "open")
        /\ ~notBlank => ~ret.attempted
        /\ notBlank => ret.attempted

\* the timer fired first and open came late: one result, false; and a padded
\* URL with a prompt open: true
C22_Witness ==
  /\ ret.fn = "isChromeCdpReady"
  /\ ret.answer.webSocketDebuggerUrl = << " " >> \o WsUrl \o << " " >>
  /\ ret.events = << "timer", "open", "error" >>
  /\ ret.attempted /\ ret.out = "false"

\* C23: the registry goes from empty to tracked only when a successful launch
\* of browserStart completes, and from tracked to empty only when a
\* browserStop resumes or a browserStart has found the tracked endpoint
\* unreachable; it changes in no other way.
C23_RegistryLifecycle ==
  [][activeBrowser' # activeBrowser
     => \/ /\ activeBrowser = 0
           /\ \E c \in Callers :
                /\ calls[c].pc = "s_assign" /\ Ends(c)
                /\ activeBrowser' = calls[c].proc
        \/ /\ activeBrowser # 0 /\ activeBrowser' = 0
           /\ \E c \in Callers :
                \/ calls[c].pc = "k_resume" /\ Ends(c)
                \/ /\ calls[c].pc = "s_probe" /\ calls'[c].pc # "s_probe"
                   /\ ~calls'[c].probe]_vars

\* C24: whenever no browserStart() or browserStop() is in flight, every live
\* child of this program that has received no signal is the tracked one.
C24_NoUntrackedLiveChild ==
  (\A c \in Callers : ~InFlight(c))
  => \A p \in Alive : ~procs[p].killed => p = activeBrowser

\* C25: when a launch succeeds, the endpoint that answered its probe belongs
\* to the child this launch spawned, and that child is alive.
C25_HandleIsOfAnsweringChild ==
  [][\A c \in Callers :
       ( /\ calls[c].pc = "l_final" /\ calls'[c].pc # "l_final"
         /\ calls'[c].pc = "s_assign" \/ calls'[c].res = "ok" )
       => /\ listener = calls[c].proc
          /\ procs[calls[c].proc].state = "alive"]_vars

\* C26: every call of browserTool.execute() gives its caller a result: without
\* isError when the operation returned, with isError true and a text that
\* begins with "Error: " when the operation threw; it never ends without one.
C26_ExecuteAlwaysReturns ==
  [][\A c \in Callers :
       (Ends(c) /\ calls'[c].op \in {"start", "stop", "snapshot", "act", "tool"})
         => LET r == executeResult(calls'[c]) IN
              /\ r.settled
              /\ r.isError = "undefined" => calls'[c].res \in Returned
              /\ r.isError = "true" => /\ calls'[c].res \in Threw
                                       /\ Head(r.text) = "Error: "]_vars

\* C27: run() makes at most 20 completion requests, and once it is over,
\* however its loop ended, it has executed the tool's stop action and no
\* browser is tracked.
C27_RunStopsBrowser ==
  /\ agent.iterations <= maxIterations
  /\ agent.pc \in {"finished", "rejected"} => agent.stop /\ activeBrowser = 0

====
